---------------------------- MODULE Spec2Model ----------------------------
(***************************************************************************)
(* Model of scripts/generate_pen_icons.py: the module-level directory      *)
(* creation, create_icon(size) and the driver main().                      *)
(*                                                                         *)
(* Floats are modelled in fixed point.  A coordinate is an integer count   *)
(* of 1/SCALE pixel, so the ratios 0.28, 0.18, 0.78 and 0.16 of the source *)
(* are exact; a product with a decimal factor is rounded towards minus     *)
(* infinity.  The unit vector (ux, uy) is an integer count of 1/USCALE.    *)
(* The raster of a canvas is sampled on a Grid x Grid lattice of pixels.   *)
(***************************************************************************)
EXTENDS Integers, Sequences, FiniteSets, TLC

VARIABLES
    pc,      \* position of the program
    err,     \* the exception that ended the run ("" while none)
    sizes,   \* the tuple the driver iterates over
    idx,     \* position of the driver's for loop in sizes (1-based)
    frame,   \* the locals of the running create_icon call (<<>> outside a call)
    img,     \* the canvas of the running create_icon call (<<>> outside a call)
    fs,      \* the filesystem: the icon directory and the files in it
    stdout,  \* the lines printed so far
    log,     \* history: the library and I/O calls made so far, in order
    fs0      \* history: the filesystem when the program started

vars == <<pc, err, sizes, idx, frame, img, fs, stdout, log, fs0>>

---------------------------------------------------------------------------
(* Bounds of the model *)

\* SpecIcon calls create_icon with every size in 0..MaxSize
MaxSize == 160

\* the raster is sampled at Grid x Grid pixels
Grid == 12

---------------------------------------------------------------------------
(* Program constants *)

BACKGROUND == "#020617"

PEN_BODY == "#38bdf8"

PEN_SHADOW == "#0ea5e9"

PEN_CLIP == "#bae6fd"

PEN_NIB == "#f8fafc"

PEN_NIB_LINE == "#94a3b8"

\* mutant of SIZES: the sizes in the other order
SIZES_Reversed == <<512, 192>>

\* for size in (192, 512)
SIZES == <<192, 512>>

\* ROOT / "public" / "icons", relative to ROOT
ICON_DIR == "public/icons"

---------------------------------------------------------------------------
(* Float arithmetic in fixed point *)

\* units per pixel: start, end and width are size * 14/50, 9/50, 39/50, 8/50
SCALE == 50

\* units of a component of the unit vector (ux, uy)
USCALE == 20 * SCALE

\* x * (n/d) for the decimal literal n/d
MulDec(x, n, d) == (x * n) \div d

\* u * x for a component u of the unit vector
MulUnit(u, x) == (u * x) \div USCALE

RECURSIVE SqrtBetween(_, _, _)
SqrtBetween(x, lo, hi) ==
    IF lo >= hi THEN lo
    ELSE LET mid == (lo + hi + 1) \div 2
         IN  IF mid * mid <= x THEN SqrtBetween(x, mid, hi)
             ELSE SqrtBetween(x, lo, mid - 1)

\* the square root of x, rounded down
Sqrt(x) == SqrtBetween(x, 0, 46340)

\* math.hypot(dx, dy)
Hypot(dx, dy) == Sqrt(dx * dx + dy * dy)

\* int(x) of a float x: truncation towards zero, in pixels
IntOf(x) == IF x >= 0 THEN x \div SCALE ELSE -((-x) \div SCALE)

\* _offset_point(point, vector)
OffsetPoint(point, vector) == <<point[1] + vector[1], point[2] + vector[2]>>

\* (-v[0], -v[1])
Neg(v) == <<-v[1], -v[2]>>

\* (v[0] * n/d, v[1] * n/d)
ScaleVec(v, n, d) == <<MulDec(v[1], n, d), MulDec(v[2], n, d)>>

\* (ux * x, uy * x)
Along(f, x) == <<MulUnit(f.ux, x), MulUnit(f.uy, x)>>

\* (-ux * x, -uy * x)
AlongBack(f, x) == <<MulUnit(-f.ux, x), MulUnit(-f.uy, x)>>

---------------------------------------------------------------------------
(* Geometry of create_icon *)

\* start = (size * 0.28, size * 0.18)
Start(size) == <<MulDec(size * SCALE, 28, 100), MulDec(size * SCALE, 18, 100)>>

\* mutant of End: the ratios of start repeated for end
EndAtStart(size) == <<MulDec(size * SCALE, 28, 100), MulDec(size * SCALE, 18, 100)>>

\* end = (size * 0.78, size * 0.78)
End(size) == <<MulDec(size * SCALE, 78, 100), MulDec(size * SCALE, 78, 100)>>

\* width = size * 0.16
Width(size) == MulDec(size * SCALE, 16, 100)

\* dx, dy = end[0] - start[0], end[1] - start[1]
Delta(size) == <<End(size)[1] - Start(size)[1], End(size)[2] - Start(size)[2]>>

\* length = math.hypot(dx, dy)
Length(size) == Hypot(Delta(size)[1], Delta(size)[2])

\* mutant of Body: the last two vertices exchanged
BodyCrossed(start, end, perp) ==
    << OffsetPoint(start, perp),
       OffsetPoint(end, perp),
       OffsetPoint(start, Neg(perp)),
       OffsetPoint(end, Neg(perp)) >>

\* body = [start + perp, end + perp, end - perp, start - perp]
Body(start, end, perp) ==
    << OffsetPoint(start, perp),
       OffsetPoint(end, perp),
       OffsetPoint(end, Neg(perp)),
       OffsetPoint(start, Neg(perp)) >>

\* shadow = [start + 0.4 perp, end + 0.4 perp, end - 0.6 perp, start - 0.6 perp]
Shadow(start, end, perp) ==
    << OffsetPoint(start, ScaleVec(perp, 4, 10)),
       OffsetPoint(end, ScaleVec(perp, 4, 10)),
       OffsetPoint(end, ScaleVec(Neg(perp), 6, 10)),
       OffsetPoint(start, ScaleVec(Neg(perp), 6, 10)) >>

\* the locals after lines 27-50, for a size whose axis has a length
Geometry(size) ==
    LET start == Start(size)
        end == End(size)
        width == Width(size)
        dx == Delta(size)[1]
        dy == Delta(size)[2]
        length == Length(size)
        ux == (dx * USCALE) \div length
        uy == (dy * USCALE) \div length
        px == -uy
        py == ux
        half == width \div 2
        perp == <<MulUnit(px, half), MulUnit(py, half)>>
    IN  [ size |-> size, start |-> start, end |-> end, width |-> width,
          dx |-> dx, dy |-> dy, length |-> length, ux |-> ux, uy |-> uy,
          px |-> px, py |-> py, half |-> half, perp |-> perp,
          body |-> Body(start, end, perp),
          shadow |-> Shadow(start, end, perp) ]

\* nib_length = width * 0.85
NibLength(f) == MulDec(f.width, 85, 100)

\* nib_tip = end + (ux * nib_length, uy * nib_length)
NibTip(f) == OffsetPoint(f.end, Along(f, NibLength(f)))

\* nib = [end + perp, nib_tip, end - perp]
Nib(f) ==
    << OffsetPoint(f.end, f.perp),
       NibTip(f),
       OffsetPoint(f.end, Neg(f.perp)) >>

\* [nib_tip, _offset_point(end, (0, 0))]
NibLine(f) == << f.nib_tip, OffsetPoint(f.end, <<0, 0>>) >>

\* mutant of NibLineWidth: round(width * 0.08) instead of int(width * 0.08)
NibLineWidthRounded(f) == (2 * MulDec(f.width, 8, 100) + SCALE) \div (2 * SCALE)

\* width=int(width * 0.08)
NibLineWidth(f) == IntOf(MulDec(f.width, 8, 100))

\* eraser_length = width * 0.9
EraserLength(f) == MulDec(f.width, 9, 10)

\* eraser_start = start + (-ux * eraser_length, -uy * eraser_length)
EraserStart(f) == OffsetPoint(f.start, AlongBack(f, EraserLength(f)))

\* eraser = [eraser_start + perp, start + perp, start - perp, eraser_start - perp]
Eraser(f) ==
    << OffsetPoint(EraserStart(f), f.perp),
       OffsetPoint(f.start, f.perp),
       OffsetPoint(f.start, Neg(f.perp)),
       OffsetPoint(EraserStart(f), Neg(f.perp)) >>

\* clip_offset = half * 0.6
ClipOffset(f) == MulDec(f.half, 6, 10)

\* _offset_point(start, (-ux * width, -uy * width))
ClipBack(f) == OffsetPoint(f.start, AlongBack(f, f.width))

\* clip = [start + 0.5 perp, start - 0.2 perp, back - 0.2 perp, back + 0.5 perp]
Clip(f) ==
    << OffsetPoint(f.start, ScaleVec(f.perp, 5, 10)),
       OffsetPoint(f.start, ScaleVec(Neg(f.perp), 2, 10)),
       OffsetPoint(ClipBack(f), ScaleVec(Neg(f.perp), 2, 10)),
       OffsetPoint(ClipBack(f), ScaleVec(f.perp, 5, 10)) >>

\* mutant of PathOf: the size left out of the file name
PathOfUnsized(size) == "pen.png"

\* path = ICON_DIR / f"pen-{size}.png" (the name inside ICON_DIR)
PathOf(size) == "pen-" \o ToString(size) \o ".png"

\* f"Saved {path.relative_to(ROOT)}"
SavedLine(path) == "Saved " \o ICON_DIR \o "/" \o path

---------------------------------------------------------------------------
(* The canvas: Image.new, ImageDraw.polygon, ImageDraw.line *)

\* the pixels of a size x size canvas that the model samples
Pixels(size) ==
    LET at == { (i * size) \div Grid : i \in 0..(Grid - 1) }
    IN  { p \in at \X at : p[1] < size /\ p[2] < size }

\* Image.new("RGBA", (size, size), colour)
NewCanvas(size, colour) ==
    [ mode |-> "RGBA", size |-> <<size, size>>,
      px |-> [p \in Pixels(size) |-> colour] ]

\* the side of point p of the directed edge a -> b
Cross(a, b, p) == (b[1] - a[1]) * (p[2] - a[2]) - (b[2] - a[2]) * (p[1] - a[1])

\* pixel p is inside or on the convex polygon xy
InPolygon(xy, p) ==
    LET n == Len(xy)
        q == <<p[1] * SCALE, p[2] * SCALE>>
        side(i) == Cross(xy[i], xy[(i % n) + 1], q)
    IN  \/ \A i \in 1..n : side(i) >= 0
        \/ \A i \in 1..n : side(i) <= 0

\* pixel p is on the stroke of the given width along the segment xy; a width
\* below 1 strokes one pixel
OnLine(xy, width, p) ==
    LET a == xy[1]
        b == xy[2]
        q == <<p[1] * SCALE, p[2] * SCALE>>
        d == <<b[1] - a[1], b[2] - a[2]>>
        dd == d[1] * d[1] + d[2] * d[2]
        t == (q[1] - a[1]) * d[1] + (q[2] - a[2]) * d[2]
        c == Cross(a, b, q)
        w == IF width < 1 THEN 1 ELSE width
    IN  /\ 0 <= t
        /\ t <= dd
        /\ 2 * (IF c < 0 THEN -c ELSE c) <= w * SCALE * Sqrt(dd)

\* draw.polygon(xy, fill=fill)
DrawPolygon(im, xy, fill) ==
    [im EXCEPT !.px = [p \in DOMAIN im.px |->
                          IF InPolygon(xy, p) THEN fill ELSE im.px[p]]]

\* draw.line(xy, fill=fill, width=width)
DrawLine(im, xy, fill, width) ==
    [im EXCEPT !.px = [p \in DOMAIN im.px |->
                          IF OnLine(xy, width, p) THEN fill ELSE im.px[p]]]

---------------------------------------------------------------------------
(* The filesystem *)

\* a pen-<size>.png left in the icon directory by an earlier generation
StaleFile == [ mode |-> "RGBA", size |-> <<1, 1>>, px |-> [p \in Pixels(1) |-> PEN_NIB] ]

\* a file opened for writing whose write did not complete
TruncatedFile == [ mode |-> "", size |-> <<0, 0>>, px |-> <<>> ]

\* a file of the icon directory that is no pen icon
OTHER_FILE == "favicon.png"

\* a pen icon of a size the driver does not render
OLD_PEN_FILE == "pen-64.png"

\* the names of the pen-*.png files the model knows
PenFiles(ss) == { PathOf(ss[i]) : i \in 1..Len(ss) } \cup {OLD_PEN_FILE}

\* the filesystem with file `path` holding `content`
WriteFile(f, path, content) ==
    [f EXCEPT !.files = [n \in (DOMAIN f.files) \cup {path} |->
                            IF n = path THEN content ELSE f.files[n]]]

\* ICON_DIR.mkdir(parents=True, exist_ok=True)
Mkdir(f) == [f EXCEPT !.dir = TRUE]

\* the filesystems the program may start in: no icon directory, or an icon
\* directory holding any of the given names
StartFs(names) ==
    { [dir |-> FALSE, files |-> <<>>] } \cup
    { [dir |-> TRUE, files |-> [n \in have |-> StaleFile]] : have \in names }

---------------------------------------------------------------------------
(* History *)

\* one call, as recorded in log
Call(op, arg, xy, fill, width) ==
    [ op |-> op, inv |-> idx, arg |-> arg, xy |-> xy, fill |-> fill, width |-> width ]

---------------------------------------------------------------------------
(* Module level: lines 9-11 *)

\* mutant of ImportOk: the directory is not created
ImportNoMkdir ==
    /\ pc = "import"
    /\ pc' = "main"
    /\ UNCHANGED <<err, sizes, idx, frame, img, fs, stdout, log, fs0>>

\* ICON_DIR.mkdir(parents=True, exist_ok=True) succeeds
ImportOk ==
    /\ pc = "import"
    /\ fs' = Mkdir(fs)
    /\ log' = Append(log, Call("mkdir", ICON_DIR, <<>>, "", 0))
    /\ pc' = "main"
    /\ UNCHANGED <<err, sizes, idx, frame, img, stdout, fs0>>

\* ICON_DIR.mkdir(parents=True, exist_ok=True) raises: the import ends the run
ImportFail ==
    /\ pc = "import"
    /\ log' = Append(log, Call("mkdir_failed", ICON_DIR, <<>>, "", 0))
    /\ pc' = "error"
    /\ err' = "OSError"
    /\ UNCHANGED <<sizes, idx, frame, img, fs, stdout, fs0>>

---------------------------------------------------------------------------
(* main: lines 89-91 *)

\* the for loop takes the next size and calls create_icon(size)
MainCall ==
    /\ pc = "main"
    /\ idx <= Len(sizes)
    /\ frame' = [size |-> sizes[idx]]
    /\ pc' = "new"
    /\ UNCHANGED <<err, sizes, idx, img, fs, stdout, log, fs0>>

\* the for loop is exhausted: main returns
MainReturn ==
    /\ pc = "main"
    /\ idx > Len(sizes)
    /\ pc' = "done"
    /\ UNCHANGED <<err, sizes, idx, frame, img, fs, stdout, log, fs0>>

---------------------------------------------------------------------------
(* create_icon: lines 23-86 *)

\* mutant of NewImage: Image.new("RGBA", (size, size)) without the colour
NewImageUnfilled ==
    /\ pc = "new"
    /\ img' = NewCanvas(frame.size, "#00000000")
    /\ log' = Append(log, Call("new", frame.size, <<>>, "#00000000", 0))
    /\ pc' = "geometry"
    /\ UNCHANGED <<err, sizes, idx, frame, fs, stdout, fs0>>

\* lines 24-25: img = Image.new("RGBA", (size, size), BACKGROUND)
NewImage ==
    /\ pc = "new"
    /\ img' = NewCanvas(frame.size, BACKGROUND)
    /\ log' = Append(log, Call("new", frame.size, <<>>, BACKGROUND, 0))
    /\ pc' = "geometry"
    /\ UNCHANGED <<err, sizes, idx, frame, fs, stdout, fs0>>

\* lines 27-50: the axis, its unit vector, perp, body and shadow
ComputeGeometry ==
    /\ pc = "geometry"
    /\ Length(frame.size) # 0
    /\ frame' = Geometry(frame.size)
    /\ pc' = "shadow"
    /\ UNCHANGED <<err, sizes, idx, img, fs, stdout, log, fs0>>

\* line 33: dx / length with length = 0 raises ZeroDivisionError
ZeroDivision ==
    /\ pc = "geometry"
    /\ Length(frame.size) = 0
    /\ pc' = "error"
    /\ err' = "ZeroDivisionError"
    /\ frame' = <<>>
    /\ img' = <<>>
    /\ UNCHANGED <<sizes, idx, fs, stdout, log, fs0>>

\* line 52: draw.polygon(shadow, fill=PEN_SHADOW)
DrawShadow ==
    /\ pc = "shadow"
    /\ img' = DrawPolygon(img, frame.shadow, PEN_SHADOW)
    /\ log' = Append(log, Call("polygon", "shadow", frame.shadow, PEN_SHADOW, 0))
    /\ pc' = "body"
    /\ UNCHANGED <<err, sizes, idx, frame, fs, stdout, fs0>>

\* line 53: draw.polygon(body, fill=PEN_BODY)
DrawBody ==
    /\ pc = "body"
    /\ img' = DrawPolygon(img, frame.body, PEN_BODY)
    /\ log' = Append(log, Call("polygon", "body", frame.body, PEN_BODY, 0))
    /\ pc' = "nib"
    /\ UNCHANGED <<err, sizes, idx, frame, fs, stdout, fs0>>

\* lines 55-62: nib_length, nib_tip, nib; draw.polygon(nib, fill=PEN_NIB)
DrawNib ==
    /\ pc = "nib"
    /\ frame' = [nib_length |-> NibLength(frame), nib_tip |-> NibTip(frame),
                 nib |-> Nib(frame)] @@ frame
    /\ img' = DrawPolygon(img, frame'.nib, PEN_NIB)
    /\ log' = Append(log, Call("polygon", "nib", frame'.nib, PEN_NIB, 0))
    /\ pc' = "nibline"
    /\ UNCHANGED <<err, sizes, idx, fs, stdout, fs0>>

\* line 63: draw.line([nib_tip, end], fill=PEN_NIB_LINE, width=int(width * 0.08))
DrawNibLine ==
    /\ pc = "nibline"
    /\ img' = DrawLine(img, NibLine(frame), PEN_NIB_LINE, NibLineWidth(frame))
    /\ log' = Append(log, Call("line", "nibline", NibLine(frame), PEN_NIB_LINE,
                               NibLineWidth(frame)))
    /\ pc' = "eraser"
    /\ UNCHANGED <<err, sizes, idx, frame, fs, stdout, fs0>>

\* lines 65-73: eraser_length, eraser_start, eraser; draw.polygon(eraser, fill=PEN_CLIP)
DrawEraser ==
    /\ pc = "eraser"
    /\ frame' = [eraser_length |-> EraserLength(frame),
                 eraser_start |-> EraserStart(frame),
                 eraser |-> Eraser(frame)] @@ frame
    /\ img' = DrawPolygon(img, frame'.eraser, PEN_CLIP)
    /\ log' = Append(log, Call("polygon", "eraser", frame'.eraser, PEN_CLIP, 0))
    /\ pc' = "clip"
    /\ UNCHANGED <<err, sizes, idx, fs, stdout, fs0>>

\* mutant of DrawClip: the clip is computed and not drawn
DrawClipSkipped ==
    /\ pc = "clip"
    /\ frame' = [clip_offset |-> ClipOffset(frame), clip |-> Clip(frame)] @@ frame
    /\ pc' = "save"
    /\ UNCHANGED <<err, sizes, idx, img, fs, stdout, log, fs0>>

\* lines 75-82: clip_offset, clip; draw.polygon(clip, fill=PEN_SHADOW)
DrawClip ==
    /\ pc = "clip"
    /\ frame' = [clip_offset |-> ClipOffset(frame), clip |-> Clip(frame)] @@ frame
    /\ img' = DrawPolygon(img, frame'.clip, PEN_SHADOW)
    /\ log' = Append(log, Call("polygon", "clip", frame'.clip, PEN_SHADOW, 0))
    /\ pc' = "save"
    /\ UNCHANGED <<err, sizes, idx, fs, stdout, fs0>>

\* mutant of SaveOk: a file that exists is not overwritten
SaveOkKeepExisting ==
    /\ pc = "save"
    /\ fs.dir
    /\ frame' = [path |-> PathOf(frame.size)] @@ frame
    /\ fs' = IF frame'.path \in DOMAIN fs.files THEN fs ELSE WriteFile(fs, frame'.path, img)
    /\ log' = Append(log, Call("save", frame'.path, <<>>, "", 0))
    /\ pc' = "print"
    /\ UNCHANGED <<err, sizes, idx, img, stdout, fs0>>

\* lines 84-85: path = ICON_DIR / f"pen-{size}.png"; img.save(path, "PNG") succeeds
SaveOk ==
    /\ pc = "save"
    /\ fs.dir
    /\ frame' = [path |-> PathOf(frame.size)] @@ frame
    /\ fs' = WriteFile(fs, frame'.path, img)
    /\ log' = Append(log, Call("save", frame'.path, <<>>, "", 0))
    /\ pc' = "print"
    /\ UNCHANGED <<err, sizes, idx, img, stdout, fs0>>

\* mutant of SaveFail: the exception is caught and the driver goes on
SaveFailCaught ==
    /\ pc = "save"
    /\ fs' = fs
    /\ log' = Append(log, Call("save_failed", PathOf(frame.size), <<>>, "", 0))
    /\ frame' = <<>>
    /\ img' = <<>>
    /\ idx' = idx + 1
    /\ pc' = "main"
    /\ UNCHANGED <<err, sizes, stdout, fs0>>

\* lines 84-85: img.save(path, "PNG") raises; the file is untouched, or was
\* opened for writing and is left truncated
SaveFail ==
    /\ pc = "save"
    /\ \/ fs' = fs
       \/ fs.dir /\ fs' = WriteFile(fs, PathOf(frame.size), TruncatedFile)
    /\ log' = Append(log, Call("save_failed", PathOf(frame.size), <<>>, "", 0))
    /\ pc' = "error"
    /\ err' = "OSError"
    /\ frame' = <<>>
    /\ img' = <<>>
    /\ UNCHANGED <<sizes, idx, stdout, fs0>>

\* line 86: print(f"Saved {path.relative_to(ROOT)}"), then create_icon returns
PrintOk ==
    /\ pc = "print"
    /\ stdout' = Append(stdout, SavedLine(frame.path))
    /\ log' = Append(log, Call("print", SavedLine(frame.path), <<>>, "", 0))
    /\ frame' = <<>>
    /\ img' = <<>>
    /\ idx' = idx + 1
    /\ pc' = "main"
    /\ UNCHANGED <<err, sizes, fs, fs0>>

\* line 86: the write to standard output raises
PrintFail ==
    /\ pc = "print"
    /\ log' = Append(log, Call("print_failed", SavedLine(frame.path), <<>>, "", 0))
    /\ pc' = "error"
    /\ err' = "OSError"
    /\ frame' = <<>>
    /\ img' = <<>>
    /\ UNCHANGED <<sizes, idx, fs, stdout, fs0>>

---------------------------------------------------------------------------
(* Specifications *)

\* python scripts/generate_pen_icons.py
Init ==
    /\ pc = "import"
    /\ err = ""
    /\ sizes = SIZES
    /\ idx = 1
    /\ frame = <<>>
    /\ img = <<>>
    /\ fs \in StartFs(SUBSET (PenFiles(SIZES) \cup {OTHER_FILE}))
    /\ stdout = <<>>
    /\ log = <<>>
    /\ fs0 = fs

Next ==
    \/ ImportOk
    \/ ImportFail
    \/ MainCall
    \/ MainReturn
    \/ NewImage
    \/ ComputeGeometry
    \/ DrawShadow
    \/ DrawBody
    \/ DrawNib
    \/ DrawNibLine
    \/ DrawEraser
    \/ DrawClip
    \/ SaveOk
    \/ SaveFail
    \/ PrintOk
    \/ PrintFail

Spec == Init /\ [][Next]_vars

\* the sizes create_icon is called with when it is checked as a function
IconSizes == (0..MaxSize) \cup { SIZES[i] : i \in 1..Len(SIZES) }

\* a caller that imports the module and calls create_icon(s), create_icon(192),
\* create_icon(s), for any size s
InitIcon ==
    /\ pc = "import"
    /\ err = ""
    /\ sizes \in { <<s, SIZES[1], s>> : s \in IconSizes }
    /\ idx = 1
    /\ frame = <<>>
    /\ img = <<>>
    /\ fs \in StartFs({ {}, PenFiles(sizes) \cup {OTHER_FILE} })
    /\ stdout = <<>>
    /\ log = <<>>
    /\ fs0 = fs

NextIcon ==
    \/ Next
    \/ ZeroDivision

SpecIcon == InitIcon /\ [][NextIcon]_vars

---------------------------------------------------------------------------
(* Reading the history *)

\* the calls of invocation i whose op is in ops, in order
CallsOf(i, ops) == SelectSeq(log, LAMBDA c : c.inv = i /\ c.op \in ops)

\* sequence s is a prefix of sequence t
IsPrefix(s, t) == Len(s) <= Len(t) /\ \A k \in 1..Len(s) : s[k] = t[k]

\* the canvas operations of invocation i, by the shape each one paints
Painted(i) ==
    LET cs == CallsOf(i, {"new", "polygon", "line"})
    IN  [k \in 1..Len(cs) |-> IF cs[k].op = "new" THEN "background" ELSE cs[k].arg]

\* canvas operation c paints pixel p
Paints(c, p) ==
    CASE c.op = "new" -> TRUE
      [] c.op = "polygon" -> InPolygon(c.xy, p)
      [] c.op = "line" -> OnLine(c.xy, c.width, p)

\* the colour of the last of the canvas operations cs that paints pixel p
TopColour(cs, p) ==
    LET last == CHOOSE k \in 1..Len(cs) :
                    /\ Paints(cs[k], p)
                    /\ \A m \in (k + 1)..Len(cs) : ~Paints(cs[m], p)
    IN  cs[last].fill

\* the path has been saved by this run
Written(path) == \E k \in 1..Len(log) : log[k].op = "save" /\ log[k].arg = path

---------------------------------------------------------------------------
(* C1: the draw order *)

DrawOrder == <<"background", "shadow", "body", "nib", "nibline", "eraser", "clip">>

\* C1: in every create_icon call the canvas operations are background fill,
\* shadow, body, nib triangle, nib centerline, eraser/cap and clip, in this
\* order and each once; the save is attempted only after the clip is drawn;
\* and every pixel of the canvas, and of the saved file, has the colour of the
\* last operation that painted it.
C1_DrawOrder ==
    /\ \A i \in 1..Len(sizes) :
          /\ IsPrefix(Painted(i), DrawOrder)
          /\ CallsOf(i, {"save", "save_failed"}) # <<>> => Painted(i) = DrawOrder
    /\ pc \in {"shadow", "body", "nib", "nibline", "eraser", "clip", "save", "print"} =>
          \A p \in DOMAIN img.px :
              img.px[p] = TopColour(CallsOf(idx, {"new", "polygon", "line"}), p)
    /\ pc = "print" =>
          \A p \in Pixels(frame.size) :
              fs.files[frame.path].px[p] =
                  TopColour(CallsOf(idx, {"new", "polygon", "line"}), p)

\* a file has been saved in which a pixel painted by the shadow and then by
\* the body has the colour of the body, and one painted by the eraser and then
\* by the clip the colour of the clip
C1_Witness ==
    /\ pc = "print"
    /\ \E p \in Pixels(frame.size) :
          /\ InPolygon(frame.shadow, p)
          /\ InPolygon(frame.body, p)
          /\ fs.files[frame.path].px[p] = PEN_BODY
    /\ \E p \in Pixels(frame.size) :
          /\ InPolygon(frame.eraser, p)
          /\ InPolygon(frame.clip, p)
          /\ fs.files[frame.path].px[p] = PEN_SHADOW

---------------------------------------------------------------------------
(* C2: the order of the driver *)

\* the canvas creations, saves and prints of the run, in order
DriverEvents ==
    LET cs == SelectSeq(log, LAMBDA c : c.op \in {"new", "save", "print"})
    IN  [k \in 1..Len(cs) |->
            <<cs[k].op, IF cs[k].op = "new" THEN ToString(cs[k].arg) ELSE cs[k].arg>>]

SuccessfulRun ==
    << <<"new", "192">>,
       <<"save", "pen-192.png">>,
       <<"print", "Saved public/icons/pen-192.png">>,
       <<"new", "512">>,
       <<"save", "pen-512.png">>,
       <<"print", "Saved public/icons/pen-512.png">> >>

\* C2: main renders 192 first and 512 second, each path is printed after its
\* file is saved, and the rendering of 512 begins after the print for 192: the
\* events of a run are a prefix of new(192), save(pen-192.png), print(192),
\* new(512), save(pen-512.png), print(512), and all of it when main returns.
C2_DriverOrder ==
    /\ IsPrefix(DriverEvents, SuccessfulRun)
    /\ pc = "done" => DriverEvents = SuccessfulRun
    /\ pc = "done" => stdout = <<"Saved public/icons/pen-192.png",
                                 "Saved public/icons/pen-512.png">>

\* main has returned after both sizes
C2_Witness ==
    /\ pc = "done"
    /\ Len(stdout) = 2
    /\ Written("pen-192.png")
    /\ Written("pen-512.png")

---------------------------------------------------------------------------
(* C3: the output of a successful run *)

\* the names of the icon directory whose file differs between f and g
Changed(f, g) ==
    { n \in (DOMAIN f.files) \cup (DOMAIN g.files) :
        \/ n \notin DOMAIN f.files
        \/ n \notin DOMAIN g.files
        \/ f.files[n] # g.files[n] }

AllPenNames == {"pen-192.png", "pen-512.png", "pen-64.png"}

---------------------------------------------------------------------------
(* C4: a failing filesystem operation *)

\* a directory creation or a file write of this run has failed
FsFailed == \E k \in 1..Len(log) : log[k].op \in {"mkdir_failed", "save_failed"}

\* the number of times the run has tried to save path
SaveAttempts(path) ==
    Len(SelectSeq(log, LAMBDA c : c.op \in {"save", "save_failed"} /\ c.arg = path))

\* the number of times the run has tried to create the icon directory
MkdirAttempts == Len(SelectSeq(log, LAMBDA c : c.op \in {"mkdir", "mkdir_failed"}))

\* the file at path holds a complete size x size canvas
HoldsIcon(f, path, size) ==
    /\ path \in DOMAIN f.files
    /\ f.files[path].size = <<size, size>>

\* C4: a failing mkdir or save is not caught.  The failing step ends the run in
\* the error state, after which nothing happens: no later size is rendered or
\* saved.  No save and no mkdir is attempted twice, and a file this run has
\* written stays as written.  A run that started with neither output file and
\* failed has written at most one of the two files.
C4_FailStop ==
    [][ /\ ~FsFailed
        /\ pc # "error"
        /\ FsFailed' => pc' = "error" /\ err' = "OSError"
        /\ \A n \in {"pen-192.png", "pen-512.png"} :
              /\ SaveAttempts(n)' <= 1
              /\ Written(n) => n \in DOMAIN fs'.files /\ fs'.files[n] = fs.files[n]
        /\ MkdirAttempts' <= 1
        /\ (/\ FsFailed'
            /\ "pen-192.png" \notin DOMAIN fs0.files
            /\ "pen-512.png" \notin DOMAIN fs0.files) =>
              /\ ~(Written("pen-192.png")' /\ Written("pen-512.png")')
              /\ ~(HoldsIcon(fs', "pen-192.png", 192) /\ HoldsIcon(fs', "pen-512.png", 512))
      ]_vars

\* the save of pen-512.png has failed after pen-192.png was written, in a
\* directory that held neither: one of the two files is written
C4_Witness ==
    /\ pc = "error"
    /\ FsFailed
    /\ (DOMAIN fs0.files) \cap {"pen-192.png", "pen-512.png"} = {}
    /\ Written("pen-192.png")
    /\ HoldsIcon(fs, "pen-192.png", 192)
    /\ ~Written("pen-512.png")

---------------------------------------------------------------------------
(* C5: the icon directory *)

\* the file name of the driver's size
NameOf(size) == IF size = 192 THEN "pen-192.png" ELSE "pen-512.png"

\* C5: whenever a save is about to happen the icon directory exists, and a step
\* changes the filesystem only by creating the icon directory at import or by
\* writing pen-<size>.png of the current size at the save.
C5_DirectoryAndFrame ==
    [][ /\ pc = "save" => fs.dir
        /\ fs' # fs =>
              \/ /\ pc = "import"
                 /\ ~fs.dir
                 /\ fs' = [dir |-> TRUE, files |-> fs.files]
              \/ /\ pc = "save"
                 /\ fs'.dir = fs.dir
                 /\ Changed(fs, fs') = {NameOf(frame.size)}
      ]_vars

\* a file has been saved in an icon directory that did not exist at the start
C5_Witness ==
    /\ pc = "print"
    /\ ~fs0.dir
    /\ fs.dir
    /\ Written("pen-192.png")

---------------------------------------------------------------------------
(* C6: independent invocations *)

\* C6: each invocation starts from its argument alone and a fresh canvas of
\* size x size pixels, all of the background colour; a step of an invocation
\* changes no file but pen-<size>.png of its own size; an invocation that
\* returns has saved exactly once; and between invocations no local and no
\* canvas is left.
C6_Independent ==
    [][ /\ pc = "new" =>
              /\ frame = [size |-> sizes[idx]]
              /\ img = <<>>
              /\ img'.size = <<sizes[idx], sizes[idx]>>
              /\ DOMAIN img'.px = Pixels(sizes[idx])
              /\ \A p \in DOMAIN img'.px : img'.px[p] = BACKGROUND
        /\ pc \in {"new", "geometry", "shadow", "body", "nib", "nibline", "eraser",
                   "clip", "save", "print"} =>
              Changed(fs, fs') \subseteq {PathOf(sizes[idx])}
        /\ pc' = "main" => frame' = <<>> /\ img' = <<>>
        /\ (pc = "print" /\ pc' = "main") =>
              /\ Len(CallsOf(idx, {"save"})) = 1
              /\ CallsOf(idx, {"save"})[1].arg = PathOf(sizes[idx])
              /\ Len(CallsOf(idx, {"new"})) = 1
      ]_vars

\* the second invocation has returned and the file of the first, of another
\* size, is as the first invocation saved it
C6_Witness ==
    /\ pc = "main"
    /\ idx = 3
    /\ sizes[1] # sizes[2]
    /\ HoldsIcon(fs, PathOf(sizes[1]), sizes[1])
    /\ HoldsIcon(fs, PathOf(sizes[2]), sizes[2])
    /\ \E p \in Pixels(sizes[1]) : fs.files[PathOf(sizes[1])].px[p] = PEN_BODY

---------------------------------------------------------------------------
(* C7: determinism *)

\* a call without the number of its invocation
Anonymous(c) == [op |-> c.op, arg |-> c.arg, xy |-> c.xy, fill |-> c.fill, width |-> c.width]

\* the canvas operations and the save of invocation i
Trace(i) ==
    LET cs == CallsOf(i, {"new", "polygon", "line", "save"})
    IN  [k \in 1..Len(cs) |-> Anonymous(cs[k])]

\* C7: of two invocations with the same size, the later makes the same calls
\* (shape, vertices, colour, stroke width, path) as the earlier, whatever was
\* rendered in between and whatever the directory held at the start, and the
\* canvas it is about to save equals the file the earlier one saved.
C7_Deterministic ==
    \A i \in 1..Len(sizes) : \A j \in 1..Len(sizes) :
        (i < j /\ j <= idx /\ sizes[i] = sizes[j]) =>
            /\ IsPrefix(Trace(j), Trace(i))
            /\ (j = idx /\ pc = "save") =>
                  /\ PathOf(frame.size) \in DOMAIN fs.files
                  /\ img = fs.files[PathOf(frame.size)]
            /\ (j < idx \/ pc = "print") => Trace(j) = Trace(i)

\* the third invocation is about to save the same canvas as the first, with
\* another size rendered in between and a stale file in place at the start
C7_Witness ==
    /\ pc = "save"
    /\ idx = 3
    /\ sizes[1] = sizes[3]
    /\ sizes[2] # sizes[3]
    /\ PathOf(sizes[3]) \in DOMAIN fs0.files
    /\ img = fs.files[PathOf(sizes[3])]
    /\ \E p \in DOMAIN img.px : img.px[p] # BACKGROUND

---------------------------------------------------------------------------
(* C8: the axis has a length *)

\* the invocation has computed its geometry
HasGeometry == pc \in {"shadow", "body", "nib", "nibline", "eraser", "clip", "save", "print"}

\* C8: for a positive size dx = 0.5 size and dy = 0.6 size, not both zero, the
\* length is not zero, and the division by length does not raise: a run ends
\* with ZeroDivisionError only for size 0.
C8_NoZeroDivision ==
    /\ err = "ZeroDivisionError" => sizes[idx] = 0
    /\ (pc = "geometry" /\ frame.size > 0) =>
          /\ 2 * Delta(frame.size)[1] = frame.size * SCALE
          /\ 10 * Delta(frame.size)[2] = 6 * frame.size * SCALE
          /\ Length(frame.size) > 0
    /\ HasGeometry =>
          /\ frame.size > 0
          /\ frame.dx # 0 \/ frame.dy # 0
          /\ frame.length > 0
          /\ frame.ux > 0 /\ frame.uy > 0

\* the smallest positive size has its unit vector
C8_Witness ==
    /\ pc = "shadow"
    /\ frame.size = 1
    /\ frame.length > 0

---------------------------------------------------------------------------
(* C9: the stroke width of the nib centerline *)

\* the centerline calls of the run
LineCalls == SelectSeq(log, LAMBDA c : c.op = "line")

\* C9 as stated: the centerline is stroked with width 0.08 * width =
\* 0.0128 * size, which is positive for every positive size.
C9_Original ==
    \A k \in 1..Len(LineCalls) :
        LET size == sizes[LineCalls[k].inv]
        IN  /\ 10000 * LineCalls[k].width = 128 * size
            /\ size > 0 => LineCalls[k].width > 0

\* C9 as amended: the centerline runs from the nib apex to end and is stroked
\* with width int(0.08 * width), that is 0.0128 * size rounded down to an
\* integer: 0 for sizes below 79, positive from 79 on, 2 for 192 and 6 for 512.
C9_Truncated ==
    \A k \in 1..Len(LineCalls) :
        LET size == sizes[LineCalls[k].inv]
            w == LineCalls[k].width
        IN  /\ 10000 * w <= 128 * size
            /\ 128 * size < 10000 * (w + 1)
            /\ w > 0 <=> size >= 79
            /\ size = 192 => w = 2
            /\ size = 512 => w = 6
            /\ LineCalls[k].fill = PEN_NIB_LINE
            /\ LineCalls[k].xy[2] = <<39 * size, 39 * size>>

\* the centerline of the 192 icon is stroked with width 2, not 2.4576
C9_Witness ==
    \E k \in 1..Len(LineCalls) :
        /\ sizes[LineCalls[k].inv] = 192
        /\ LineCalls[k].width = 2

---------------------------------------------------------------------------
(* C10: the body polygon *)

\* the body polygons drawn by the run
BodyCalls == SelectSeq(log, LAMBDA c : c.op = "polygon" /\ c.arg = "body")

Minus(a, b) == <<a[1] - b[1], a[2] - b[2]>>

Plus(a, b) == <<a[1] + b[1], a[2] + b[2]>>

Abs(x) == IF x < 0 THEN -x ELSE x

\* C10: the body has 4 vertices start+perp, end+perp, end-perp, start-perp
\* with one perp: v1 - v0 = v2 - v3 = end - start, v0 + v3 = 2 start,
\* v1 + v2 = 2 end; perp is perpendicular to the axis and the width of the
\* rectangle is 0.16 size, both to the resolution of the arithmetic.
C10_BodyRectangle ==
    \A k \in 1..Len(BodyCalls) :
        LET size == sizes[BodyCalls[k].inv]
            v == BodyCalls[k].xy
            start == <<14 * size, 9 * size>>
            end == <<39 * size, 39 * size>>
            across == Minus(v[1], v[4])
            axis == Minus(end, start)
        IN  /\ Len(v) = 4
            /\ Minus(v[2], v[1]) = axis
            /\ Minus(v[3], v[4]) = axis
            /\ Plus(v[1], v[4]) = <<2 * start[1], 2 * start[2]>>
            /\ Plus(v[2], v[3]) = <<2 * end[1], 2 * end[2]>>
            /\ Minus(v[1], start) = Minus(v[2], end)
            /\ Minus(v[1], start) = Minus(end, v[3])
            /\ Minus(v[1], start) = Minus(start, v[4])
            /\ Abs(Hypot(across[1], across[2]) - 8 * size) <= 8
            /\ Abs(across[1] * axis[1] + across[2] * axis[2]) <= 8 * Hypot(axis[1], axis[2])

\* the body of the 512 icon has been drawn, 0.16 * 512 pixels wide
C10_Witness ==
    \E k \in 1..Len(BodyCalls) :
        /\ sizes[BodyCalls[k].inv] = 512
        /\ BodyCalls[k].xy[1] # BodyCalls[k].xy[4]
        /\ BodyCalls[k].xy[1] # BodyCalls[k].xy[2]

=============================================================================
